---- MODULE Spec2Model ----
(***************************************************************************)
(* Model of SimpleVideoProcessor.extract_best_frames and _fallback_capture *)
(* (src/video_processor.py).                                               *)
(*                                                                         *)
(* A video is a sequence of still segments; every frame of a segment has   *)
(* the same content.  Floats are scaled to integers: sharpness as is,      *)
(* correlations and factors in hundredths, timestamps in milliseconds.     *)
(***************************************************************************)
EXTENDS Integers, Sequences, FiniteSets, TLC

(* ---------------- bounds of the model ---------------- *)
MaxSegments == 3
MaxTotalFrames == 2500
MaxFaults == 1
MaxFineSegments == 5
MaxScenes == 1000
MaxStillFrames == 2570

(* ---------------- configuration (constructor defaults) ---------------- *)
capture_interval_seconds == 5
similarity_threshold == 90
replace_sharpness_factor == 110
replace_text_extra == 10
min_sharpness == 50
DefaultFps == 25
FallbackTrigger == 3
FallbackMax == 20
FallbackDivisor == 100

\* the value of last_saved while nothing has been saved
None == [none |-> TRUE]

(* ---------------- frames and videos (inputs) ---------------- *)
\* decoded images: content id, Laplacian variance, edge density (per mille),
\* OCR character count, colour histogram id
Images ==
  { [img |-> "a_blur",  sharp |-> 40,  edge |-> 5,  text |-> 11, hist |-> "A"],
    [img |-> "a",       sharp |-> 100, edge |-> 10, text |-> 0,  hist |-> "A"],
    [img |-> "a_sharp", sharp |-> 115, edge |-> 12, text |-> 0,  hist |-> "A2"],
    [img |-> "a_text",  sharp |-> 100, edge |-> 14, text |-> 11, hist |-> "A"],
    [img |-> "b",       sharp |-> 100, edge |-> 20, text |-> 3,  hist |-> "B"] }

Undecodable == [img |-> "undecodable"]

Image(name) == CHOOSE im \in Images : im.img = name

\* a short segment holds one sample position, a long one ten (50 s at 25 fps)
SegLens == {125, 1250}

Segments == [len : SegLens, content : Images \cup {Undecodable}]

RECURSIVE SumLen(_)
SumLen(v) ==
  IF v = <<>> THEN 0
  ELSE IF Len(v) = 1 THEN v[1].len
  ELSE LET h == Len(v) \div 2
       IN SumLen(SubSeq(v, 1, h)) + SumLen(SubSeq(v, h + 1, Len(v)))

SeqsUpTo(S, n) == UNION { [1..k -> S] : k \in 0..n }

\* videos whose segments all have the same length, at most MaxTotalFrames long
Videos ==
  { v \in SeqsUpTo(Segments, MaxSegments) :
      /\ SumLen(v) <= MaxTotalFrames
      /\ \A i, j \in DOMAIN v : v[i].len = v[j].len }

\* cap.set(CAP_PROP_POS_FRAMES, idx); cap.read(): the frame at idx, or a
\* failed read (ret = False) past the end or on a frame that does not decode
RECURSIVE FrameAt(_, _)
FrameAt(v, idx) ==
  IF v = <<>> \/ idx < 0 THEN Undecodable
  ELSE IF Len(v) = 1
  THEN IF idx < v[1].len THEN v[1].content ELSE Undecodable
  ELSE LET h == Len(v) \div 2
           before == SumLen(SubSeq(v, 1, h))
       IN IF idx < before
          THEN FrameAt(SubSeq(v, 1, h), idx)
          ELSE FrameAt(SubSeq(v, h + 1, Len(v)), idx - before)

Max(a, b) == IF a >= b THEN a ELSE b
Min(a, b) == IF a <= b THEN a ELSE b

(* ---------------- feature extraction and comparators ---------------- *)
FrameSharpness(frame) == frame.sharp
EdgeDensity(frame) == frame.edge
\* _text_amount: (number of recognised characters, the text)
TextAmount(frame) == <<frame.text, IF frame.text > 0 THEN frame.img ELSE "">>
Histogram(frame) == frame.hist

\* correlation of two colour histograms, in hundredths
HistCorrelation(h1, h2) ==
  IF h1 = h2 THEN 100
  ELSE IF {h1, h2} = {"A", "A2"} THEN 95
  ELSE IF {h1, h2} = {"A", "B"} THEN 20
  ELSE 25

IsNewBetter(new, old) ==
  \/ new.sharpness * 100 > old.sharpness * replace_sharpness_factor
  \/ new.text_amount > old.text_amount + replace_text_extra

\* a slip in the blur test: the configured threshold is not applied
TooBlurry_no_threshold(sharp) == sharp < 0

\* a slip in the blur test: the comparison is the wrong way round
TooBlurry_inverted(sharp) == sharp > min_sharpness

\* lines 101 and 240: sharp < self.min_sharpness
TooBlurry(sharp) == sharp < min_sharpness

(* ---------------- file names ---------------- *)
RECURSIVE Digits(_)
Digits(n) == IF n < 10 THEN <<n>> ELSE Digits(n \div 10) \o <<n % 10>>

\* the format specification :03d
Format03d(n) ==
  LET d == Digits(n)
  IN IF Len(d) >= 3 THEN d ELSE [i \in 1..(3 - Len(d)) |-> 0] \o d

\* a slip in the numbering: the index is len(captured), not len(captured)+1
SlideFile_from_zero(n) == [prefix |-> "slide_", digits |-> Format03d(n - 1)]

\* f"{output_dir}/slide_{n:03d}.png" and f"{output_dir}/slide_fb_{n:03d}.png"
SlideFile(n) == [prefix |-> "slide_", digits |-> Format03d(n)]
FallbackFile(n) == [prefix |-> "slide_fb_", digits |-> Format03d(n)]

\* a slip in the timestamp: the operands are exchanged
TimeOf_exchanged(idx, f) == (f * 1000) \div Max(1, idx)

\* frame_idx / fps, in milliseconds
TimeOf(idx, f) == (idx * 1000) \div f

\* a slip in the budget: min and max are exchanged
NumToCapture_swapped(total) == Max(FallbackMax, Min(1, total \div FallbackDivisor))

\* min(20, max(1, total_frames // 100))
NumToCapture(total) == Min(FallbackMax, Max(1, total \div FallbackDivisor))

(* ---------------- double-precision arithmetic ---------------- *)
\* A non-negative float is [m |-> bits, e |-> n]: the integer whose binary
\* digits, most significant first, are bits, divided by 2^n.  Results are
\* rounded to MantissaBits significant bits, ties to even (IEEE 754 binary64).
MantissaBits == 53

\* the first k binary digits of r / d after the point, 0 <= r < d
RECURSIVE DivBits(_, _, _)
DivBits(r, d, k) ==
  IF k = 0 THEN <<>> ELSE <<(2 * r) \div d>> \o DivBits((2 * r) % d, d, k - 1)

\* what is left of r / d after those k digits
RECURSIVE DivRem(_, _, _)
DivRem(r, d, k) == IF k = 0 THEN r ELSE DivRem((2 * r) % d, d, k - 1)

\* the number of zero digits of r / d between the point and the first 1
RECURSIVE LeadingZeros(_, _)
LeadingZeros(r, d) == IF 2 * r >= d THEN 0 ELSE 1 + LeadingZeros(2 * r, d)

RECURSIVE Increment(_)
Increment(bits) ==
  IF bits = <<>> THEN <<1>>
  ELSE IF bits[Len(bits)] = 0 THEN SubSeq(bits, 1, Len(bits) - 1) \o <<1>>
  ELSE Increment(SubSeq(bits, 1, Len(bits) - 1)) \o <<0>>

\* round to nearest, ties to even: guard is the first digit dropped, sticky
\* tells whether anything but zeros follows it
RoundHalfEven(bits, guard, sticky) ==
  IF guard = 1 /\ (sticky \/ bits[Len(bits)] = 1) THEN Increment(bits) ELSE bits

\* i / d of Python for integers 0 <= i < d: the correctly rounded quotient
FloatDiv(i, d) ==
  IF i = 0 THEN [m |-> <<>>, e |-> 0]
  ELSE LET z == LeadingZeros(i, d)
           r == DivRem(i, d, z)
           digits == DivBits(r, d, MantissaBits + 1)
           sticky == DivRem(r, d, MantissaBits + 1) /= 0
       IN [m |-> RoundHalfEven(SubSeq(digits, 1, MantissaBits),
                               digits[MantissaBits + 1], sticky),
           e |-> z + MantissaBits]

\* the binary digits of n
RECURSIVE BitsOf(_)
BitsOf(n) == IF n = 0 THEN <<>> ELSE BitsOf(n \div 2) \o <<n % 2>>

RECURSIVE IntOf(_)
IntOf(bits) ==
  IF bits = <<>> THEN 0
  ELSE 2 * IntOf(SubSeq(bits, 1, Len(bits) - 1)) + bits[Len(bits)]

\* long multiplication is done on digits of LimbBits binary digits each
LimbBits == 10
LimbBase == 1024

\* the digits to the base LimbBase of the number with those binary digits
ToLimbs(bits) ==
  LET count == (Len(bits) + LimbBits - 1) \div LimbBits
      pad == count * LimbBits - Len(bits)
  IN [j \in 1..count |->
        IntOf(SubSeq(bits, Max(1, (j - 1) * LimbBits + 1 - pad), j * LimbBits - pad))]

\* the binary digits of the number with those digits to the base LimbBase,
\* without leading zeros
FromLimbs(limbs) ==
  LET digits == [k \in 1..(Len(limbs) * LimbBits) |->
                   (limbs[(k - 1) \div LimbBits + 1]
                      \div 2^(LimbBits - 1 - ((k - 1) % LimbBits))) % 2]
      ones == { k \in DOMAIN digits : digits[k] = 1 }
  IN IF ones = {} THEN <<>>
     ELSE SubSeq(digits, CHOOSE k \in ones : \A j \in ones : k <= j, Len(digits))

\* the digits to the base LimbBase of limbs * n + carry
RECURSIVE MulLimbs(_, _, _)
MulLimbs(limbs, n, carry) ==
  IF limbs = <<>>
  THEN IF carry = 0 THEN <<>> ELSE MulLimbs(<<>>, n, carry \div LimbBase)
                                     \o <<carry % LimbBase>>
  ELSE LET v == limbs[Len(limbs)] * n + carry
       IN MulLimbs(SubSeq(limbs, 1, Len(limbs) - 1), n, v \div LimbBase)
            \o <<v % LimbBase>>

\* the binary digits of bits * n, n < 2^20
MulBits(bits, n) == FromLimbs(MulLimbs(ToLimbs(bits), n, 0))

\* x * n for a float x and an integer n >= 0 (n is exact as a float)
FloatTimesInt(x, n) ==
  LET product == MulBits(x.m, n)
      dropped == Len(product) - MantissaBits
  IN IF dropped <= 0 THEN [m |-> product, e |-> x.e]
     ELSE [m |-> RoundHalfEven(SubSeq(product, 1, MantissaBits),
                               product[MantissaBits + 1],
                               \E k \in (MantissaBits + 2)..Len(product) :
                                  product[k] = 1),
           e |-> x.e - dropped]

\* int(x) for a float x >= 0 with x.e >= 0: the digits before the point
Truncate(x) ==
  IF Len(x.m) <= x.e THEN 0 ELSE IntOf(SubSeq(x.m, 1, Len(x.m) - x.e))

\* i / max(1, num_to_capture) for every budget and every loop index
Quotients == [d \in 1..FallbackMax |-> [i \in 0..(d - 1) |-> FloatDiv(i, d)]]

\* int((i / max(1, num_to_capture)) * total_frames), in floating point
FallbackPosition(i, num, total) ==
  Truncate(FloatTimesInt(Quotients[Max(1, num)][i], total))

(* ---------------- state ---------------- *)
VARIABLES
  video,            \* the video file at video_path
  OCR_AVAILABLE,    \* module flag: pytesseract could be imported
  pc,               \* position in extract_best_frames
  cap,              \* the capture opened by extract_best_frames
  fps, total_frames,
  processing_stats,
  frame_idx,        \* next sample position of the content-aware loop
  captured,         \* the keyframe set being built
  last_saved,       \* the incumbent (None or the new_info last saved)
  fb_cap,           \* the capture opened by _fallback_capture
  fb_i,             \* loop index of _fallback_capture
  captured_frames,  \* the list _fallback_capture builds
  disk,             \* images persisted in the output directory
  outcome,          \* what the last step did (the message it logs)
  content_pass,     \* the set as it stood when the sampling loop ended
  visited,          \* the sample positions the loop has visited, in order
  faults,           \* number of I/O and OCR failures so far
  capture_interval, \* self.capture_interval_seconds, in tenths of a second
  meta_fps,         \* CAP_PROP_FPS of the video file, 0 when it is missing
  stage,            \* position in process_video_to_pdf
  video_file,       \* the downloaded video file
  pdf_file,         \* what create_pdf returned
  pdf_pages,        \* the images of the document, in page order
  result,           \* what process_video_to_pdf returned
  stages,           \* the stages of the pipeline entered so far, in order
  fb_visited,       \* the positions _fallback_capture has sought, in order
  ui                \* what the Streamlit page shows for the run

cfgVars == <<capture_interval, meta_fps>>
pipeVars == <<stage, video_file, pdf_file, pdf_pages, result, stages>>

vars == <<video, OCR_AVAILABLE, pc, cap, fps, total_frames, processing_stats,
          frame_idx, captured, last_saved, fb_cap, fb_i, captured_frames,
          disk, outcome, content_pass, visited, faults, cfgVars, pipeVars,
          fb_visited, ui>>

\* round(num / den) of Python 3: to the nearest integer, ties to the even one
Round(num, den) ==
  LET q == num \div den
      r == num % den
  IN IF 2 * r < den THEN q
     ELSE IF 2 * r > den THEN q + 1
     ELSE IF q % 2 = 0 THEN q ELSE q + 1

\* a slip in the step: max(1, ...) is left out, the step can be 0
IntervalFrames_unguarded(f) == Round(capture_interval * f, 10)

\* a slip in the step: int() without round(), the product is truncated
IntervalFrames_truncates(f) == Max(1, (capture_interval * f) \div 10)

\* a slip in the step: the capture interval is left out (one sample a second)
IntervalFrames_one_second(f) == Max(1, f)

\* max(1, int(round(capture_interval_seconds * fps)))
IntervalFrames(f) == Max(1, Round(capture_interval * f, 10))

\* cv2.imwrite either writes the file, fails silently (returns False, which
\* the caller ignores) or raises
WriteOutcomes == {"ok", "false", "raise"}

\* the outcomes available while the failure budget lasts, n failures so far
Writes(n) == IF n < MaxFaults THEN WriteOutcomes ELSE {"ok"}
Throws == IF faults < MaxFaults THEN BOOLEAN ELSE {FALSE}

ImWrite(d, file, frame, wr) ==
  IF wr = "ok" THEN [f \in (DOMAIN d) \cup {file} |->
                       IF f = file THEN frame.img ELSE d[f]]
  ELSE d

\* nothing has run yet: the processor is constructed (lines 30-41), the
\* output directory is empty, process_video_to_pdf is about to be called
Fresh ==
  /\ OCR_AVAILABLE \in BOOLEAN
  /\ pc = "not_called"
  /\ stage = "fetch"
  /\ video_file = "absent"
  /\ pdf_file = "unset"
  /\ pdf_pages = <<>>
  /\ result = "unset"
  /\ stages = <<>>
  /\ cap = "none"
  /\ fps = 0
  /\ total_frames = 0
  /\ processing_stats = [total_frames |-> 0, key_frames |-> 0, video_duration |-> 0]
  /\ frame_idx = 0
  /\ captured = <<>>
  /\ last_saved = None
  /\ fb_cap = "none"
  /\ fb_i = 0
  /\ captured_frames = <<>>
  /\ disk = <<>>
  /\ outcome = "start"
  /\ content_pass = <<>>
  /\ visited = <<>>
  /\ fb_visited = <<>>
  /\ ui = "processing"

\* the state after construction, no failure having happened
Constructed == Fresh /\ faults = 0

\* the default configuration on a video with whole-second segments
Init ==
  /\ video \in Videos
  /\ capture_interval = capture_interval_seconds * 10
  /\ meta_fps \in {0, DefaultFps}
  /\ Constructed

\* short videos that alternate between two contents every one or two frames
FineVideos ==
  { [k \in 1..n |-> [len |-> l, content |-> IF k % 2 = 1 THEN x ELSE y]] :
      n \in 0..MaxFineSegments, l \in {1, 2},
      x \in {Image("a"), Image("b"), Undecodable},
      y \in {Image("a"), Image("b"), Undecodable} }

\* capture intervals of 0, 0.1 and 0.3 seconds at 10 or 25 frames a second
InitRates ==
  /\ video \in FineVideos
  /\ capture_interval \in {0, 1, 3}
  /\ meta_fps \in {0, 10}
  /\ Constructed

\* a video that changes scene every 5 seconds, n scenes
SlideShow(n) ==
  [k \in 1..n |-> [len |-> 125,
                   content |-> IF k % 2 = 1 THEN Image("a") ELSE Image("b")]]

\* the default configuration on slide shows of 1 to 4 scenes, and on one of
\* MaxScenes scenes in a run where no write, OCR call or makedirs fails
InitSlideShow ==
  /\ \/ video \in { SlideShow(n) : n \in 1..4 } /\ faults = 0
     \/ video = SlideShow(MaxScenes) /\ faults = MaxFaults
  /\ capture_interval = capture_interval_seconds * 10
  /\ meta_fps = DefaultFps
  /\ Fresh

\* a video of n frames that shows one still image
StillVideo(n) ==
  IF n = 0 THEN <<>> ELSE <<[len |-> n, content |-> Image("a")]>>

\* the default configuration on still videos of every length up to
\* MaxStillFrames; on those of more than 250 frames no write, OCR call or
\* makedirs fails
InitStill ==
  /\ \E n \in 0..MaxStillFrames :
       /\ video = StillVideo(n)
       /\ faults = IF n <= 250 THEN 0 ELSE MaxFaults
  /\ capture_interval = capture_interval_seconds * 10
  /\ meta_fps = DefaultFps
  /\ Fresh

\* lines 313-319: download the video; on success call extract_best_frames
\* on the downloaded file
DownloadVideo ==
  /\ stage = "fetch"
  /\ \E downloaded \in BOOLEAN :
       IF downloaded
       THEN /\ video_file' = "present"
            /\ stage' = "selection"
            /\ stages' = <<"fetch", "selection">>
            /\ pc' = "open"
            /\ UNCHANGED result
       ELSE /\ result' = "None"
            /\ stage' = "done"
            /\ stages' = <<"fetch">>
            /\ UNCHANGED <<video_file, pc>>
  /\ UNCHANGED <<cfgVars, pdf_file, pdf_pages, ui, fb_visited>>
  /\ UNCHANGED <<video, OCR_AVAILABLE, cap, fps, total_frames, processing_stats,
                 frame_idx, captured, last_saved, fb_cap, fb_i, captured_frames,
                 disk, outcome, content_pass, visited, faults>>

\* a slip in the opening: isOpened() is not consulted, a capture that did not
\* open reports no frames and the pass goes on
OpenVideo_unchecked ==
  /\ pc = "open"
  /\ \E opened \in BOOLEAN :
       IF ~opened
       THEN /\ pc' = "makedirs"
            /\ outcome' = "opened"
            /\ fps' = DefaultFps
            /\ UNCHANGED <<cap, total_frames, processing_stats>>
       ELSE LET f == IF meta_fps = 0 THEN DefaultFps ELSE meta_fps
                t == SumLen(video)
            IN /\ cap' = "open"
               /\ fps' = f
               /\ total_frames' = t
               /\ processing_stats' =
                    [processing_stats EXCEPT !.video_duration = TimeOf(t, f),
                                             !.total_frames = t]
               /\ pc' = "makedirs"
               /\ outcome' = "opened"
  /\ UNCHANGED <<cfgVars, pipeVars, ui, fb_visited>>
  /\ UNCHANGED <<video, OCR_AVAILABLE, frame_idx, captured, last_saved, fb_cap,
                 fb_i, captured_frames, disk, content_pass, visited, faults>>

\* lines 61-76: open the capture and read the metadata
OpenVideo ==
  /\ pc = "open"
  /\ \E opened \in BOOLEAN :
       IF ~opened
       THEN /\ pc' = "returned_none"
            /\ outcome' = "cannot_open"
            /\ UNCHANGED <<cap, fps, total_frames, processing_stats>>
       ELSE LET f == IF meta_fps = 0 THEN DefaultFps ELSE meta_fps
                t == SumLen(video)
            IN /\ cap' = "open"
               /\ fps' = f
               /\ total_frames' = t
               /\ processing_stats' =
                    [processing_stats EXCEPT !.video_duration = TimeOf(t, f),
                                             !.total_frames = t]
               /\ pc' = "makedirs"
               /\ outcome' = "opened"
  /\ UNCHANGED <<cfgVars, pipeVars, ui, fb_visited>>
  /\ UNCHANGED <<video, OCR_AVAILABLE, frame_idx, captured, last_saved, fb_cap,
                 fb_i, captured_frames, disk, content_pass, visited, faults>>

\* lines 79-86: create the output directory, initialise the loop
MakeDirs ==
  /\ pc = "makedirs"
  /\ \E raises \in Throws :
       IF raises
       THEN /\ pc' = "raised"
            /\ outcome' = "makedirs_raised"
            /\ faults' = faults + 1
       ELSE /\ pc' = "loop"
            /\ outcome' = "ready"
            /\ faults' = faults
  /\ captured' = <<>>
  /\ last_saved' = None
  /\ frame_idx' = 0
  /\ UNCHANGED <<cfgVars, pipeVars, ui, fb_visited>>
  /\ UNCHANGED <<video, OCR_AVAILABLE, cap, fps, total_frames, processing_stats,
                 fb_cap, fb_i, captured_frames, disk, content_pass, visited>>

\* a slip in the OCR step: _text_amount is called without looking at
\* OCR_AVAILABLE
OcrText_unguarded(frame, ocrThrows) ==
  IF ~ocrThrows THEN TextAmount(frame) ELSE <<0, "">>

\* lines 104-111 and 244-249: OCR when available, (0, "") when it is not or throws
OcrText(frame, ocrThrows) ==
  IF OCR_AVAILABLE /\ ~ocrThrows THEN TextAmount(frame) ELSE <<0, "">>

\* lines 117-125: the metadata of a sampled frame
NewInfo(frame, idx, text) ==
  [frame |-> frame.img, time |-> TimeOf(idx, fps),
   sharpness |-> FrameSharpness(frame), edge_density |-> EdgeDensity(frame),
   text_amount |-> text[1], text_content |-> text[2], hist |-> Histogram(frame)]

\* lines 133-139, 152-158, 255-261: the compact record kept in the set
Record(file, time, sharp, edge, text_amt) ==
  [file |-> file, time |-> time, sharpness |-> sharp,
   edge_density |-> edge, text_amount |-> text_amt]

WithFile(info, file) ==
  [k \in (DOMAIN info) \cup {"file"} |-> IF k = "file" THEN file ELSE info[k]]

\* a slip in the accept: last_saved is not set to the accepted frame
AcceptNew_keeps_incumbent(frame, new_info, wr, n, msg) ==
  LET filename == SlideFile(Len(captured) + 1)
  IN IF wr = "raise"
     THEN /\ pc' = "raised"
          /\ outcome' = "write_raised"
          /\ faults' = n + 1
          /\ UNCHANGED <<captured, last_saved, disk, frame_idx>>
     ELSE /\ disk' = ImWrite(disk, filename, frame, wr)
          /\ captured' = Append(captured,
                Record(filename, new_info.time, new_info.sharpness,
                       new_info.edge_density, new_info.text_amount))
          /\ last_saved' = last_saved
          /\ outcome' = msg
          /\ faults' = IF wr = "ok" THEN n ELSE n + 1
          /\ frame_idx' = frame_idx + IntervalFrames(fps)
          /\ pc' = pc

\* a slip in the accept: the new record is put in front of the set
\* (insert(0, ...) for append)
AcceptNew_in_front(frame, new_info, wr, n, msg) ==
  LET filename == SlideFile(Len(captured) + 1)
  IN IF wr = "raise"
     THEN /\ pc' = "raised"
          /\ outcome' = "write_raised"
          /\ faults' = n + 1
          /\ UNCHANGED <<captured, last_saved, disk, frame_idx>>
     ELSE /\ disk' = ImWrite(disk, filename, frame, wr)
          /\ captured' =
               <<Record(filename, new_info.time, new_info.sharpness,
                        new_info.edge_density, new_info.text_amount)>> \o captured
          /\ last_saved' = WithFile(new_info, filename)
          /\ outcome' = msg
          /\ faults' = IF wr = "ok" THEN n ELSE n + 1
          /\ frame_idx' = frame_idx + IntervalFrames(fps)
          /\ pc' = pc

\* lines 129-142 and 149-161: persist the frame as a new record
AcceptNew(frame, new_info, wr, n, msg) ==
  LET filename == SlideFile(Len(captured) + 1)
  IN IF wr = "raise"
     THEN /\ pc' = "raised"
          /\ outcome' = "write_raised"
          /\ faults' = n + 1
          /\ UNCHANGED <<captured, last_saved, disk, frame_idx>>
     ELSE /\ disk' = ImWrite(disk, filename, frame, wr)
          /\ captured' = Append(captured,
                Record(filename, new_info.time, new_info.sharpness,
                       new_info.edge_density, new_info.text_amount))
          /\ last_saved' = WithFile(new_info, filename)
          /\ outcome' = msg
          /\ faults' = IF wr = "ok" THEN n ELSE n + 1
          /\ frame_idx' = frame_idx + IntervalFrames(fps)
          /\ pc' = pc

\* a slip in the replacement: the better frame is appended as a further
\* record under the incumbent's file name instead of updating the last record
Replace_appends(frame, new_info, wr, n) ==
  LET filename == last_saved.file
  IN IF wr = "raise"
     THEN /\ outcome' = "replacement_failed"
          /\ faults' = n + 1
          /\ UNCHANGED <<captured, last_saved, disk>>
     ELSE /\ disk' = ImWrite(disk, filename, frame, wr)
          /\ captured' = Append(captured,
                Record(filename, new_info.time, new_info.sharpness,
                       new_info.edge_density, new_info.text_amount))
          /\ last_saved' = WithFile(new_info, filename)
          /\ outcome' = "replaced"
          /\ faults' = IF wr = "ok" THEN n ELSE n + 1

\* a slip in the replacement: the image is overwritten but the metadata of
\* the last record is left as it was
Replace_stale_record(frame, new_info, wr, n) ==
  LET filename == last_saved.file
  IN IF wr = "raise"
     THEN /\ outcome' = "replacement_failed"
          /\ faults' = n + 1
          /\ UNCHANGED <<captured, last_saved, disk>>
     ELSE /\ disk' = ImWrite(disk, filename, frame, wr)
          /\ captured' = captured
          /\ last_saved' = WithFile(new_info, filename)
          /\ outcome' = "replaced"
          /\ faults' = IF wr = "ok" THEN n ELSE n + 1

\* lines 166-186: overwrite the incumbent with a similar but better frame
Replace(frame, new_info, wr, n) ==
  LET filename == last_saved.file
  IN IF wr = "raise"
     THEN /\ outcome' = "replacement_failed"
          /\ faults' = n + 1
          /\ UNCHANGED <<captured, last_saved, disk>>
     ELSE /\ disk' = ImWrite(disk, filename, frame, wr)
          /\ captured' =
               IF captured /= <<>>
               THEN [captured EXCEPT ![Len(captured)] =
                       Record(@.file, new_info.time, new_info.sharpness,
                              new_info.edge_density, new_info.text_amount)]
               ELSE captured
          /\ last_saved' = WithFile(new_info, filename)
          /\ outcome' = "replaced"
          /\ faults' = IF wr = "ok" THEN n ELSE n + 1

\* a slip in the rejection: the rejected frame becomes the frame that later
\* samples are compared with
RejectSimilar_moves_incumbent(new_info, n) ==
  /\ outcome' = "rejected_similar"
  /\ faults' = n
  /\ last_saved' = WithFile(new_info, last_saved.file)
  /\ UNCHANGED <<captured, disk>>

\* lines 185-186: similar and not better, nothing is saved or updated
RejectSimilar(new_info, n) ==
  /\ outcome' = "rejected_similar"
  /\ faults' = n
  /\ UNCHANGED <<captured, last_saved, disk>>

\* a slip in the comparison: the sample is compared with every image kept so
\* far and the best correlation counts
Correlation_with_all(new_info) ==
  LET all == { HistCorrelation(new_info.hist, Histogram(Image(disk[f]))) :
                 f \in DOMAIN disk }
               \cup { HistCorrelation(new_info.hist, last_saved.hist) }
  IN CHOOSE c \in all : \A other \in all : other <= c

\* line 145: corr = self._hist_correlation(new_info['hist'], last_saved['hist'])
Correlation(new_info) == HistCorrelation(new_info.hist, last_saved.hist)

\* a slip in the skip: a failed read ends the loop (break for continue)
DecodeFailed_ends_loop ==
  /\ outcome' = "decode_failed"
  /\ frame_idx' = total_frames
  /\ UNCHANGED <<pc, captured, last_saved, disk, faults>>

\* lines 95-96: the read failed, go on with the next position
DecodeFailed ==
  /\ outcome' = "decode_failed"
  /\ frame_idx' = frame_idx + IntervalFrames(fps)
  /\ UNCHANGED <<pc, captured, last_saved, disk, faults>>

\* lines 89-186: one iteration of the sampling loop
SampleStep ==
  /\ pc = "loop"
  /\ frame_idx < total_frames
  /\ LET frame == FrameAt(video, frame_idx)
     IN IF frame.img = "undecodable"
        THEN DecodeFailed
        ELSE IF TooBlurry(FrameSharpness(frame))
        THEN /\ outcome' = "rejected_blur"
             /\ frame_idx' = frame_idx + IntervalFrames(fps)
             /\ UNCHANGED <<pc, captured, last_saved, disk, faults>>
        ELSE \E ocrThrows \in (IF OCR_AVAILABLE THEN Throws ELSE {FALSE}) :
          LET n == IF ocrThrows THEN faults + 1 ELSE faults
              new_info == NewInfo(frame, frame_idx, OcrText(frame, ocrThrows))
          IN IF last_saved = None
             THEN \E wr \in Writes(n) :
                    AcceptNew(frame, new_info, wr, n, "saved_initial")
             ELSE IF Correlation(new_info) < similarity_threshold
             THEN \E wr \in Writes(n) :
                    AcceptNew(frame, new_info, wr, n, "saved_distinct")
             ELSE IF IsNewBetter(new_info, last_saved)
             THEN /\ \E wr \in Writes(n) : Replace(frame, new_info, wr, n)
                  /\ frame_idx' = frame_idx + IntervalFrames(fps)
                  /\ pc' = pc
             ELSE /\ RejectSimilar(new_info, n)
                  /\ frame_idx' = frame_idx + IntervalFrames(fps)
                  /\ pc' = pc
  /\ visited' = Append(visited, frame_idx)
  /\ UNCHANGED <<cfgVars, pipeVars, ui, fb_visited>>
  /\ UNCHANGED <<video, OCR_AVAILABLE, cap, fps, total_frames, processing_stats,
                 fb_cap, fb_i, captured_frames, content_pass>>

\* lines 200-202: record the count and return the set
KeyFrames(stats, set) == [stats EXCEPT !.key_frames = Len(set)]

\* a slip in the trigger: the fallback also runs when exactly three records
\* were found
EndLoop_off_by_one ==
  /\ pc = "loop"
  /\ frame_idx >= total_frames
  /\ cap' = "released"
  /\ content_pass' = captured
  /\ IF Len(captured) <= FallbackTrigger
     THEN /\ pc' = "fallback"
          /\ outcome' = "using_fallback"
          /\ fb_cap' = "open"
          /\ fb_i' = 0
          /\ captured_frames' = <<>>
          /\ UNCHANGED processing_stats
     ELSE /\ pc' = "returned"
          /\ outcome' = "returned"
          /\ processing_stats' = [processing_stats EXCEPT !.key_frames = Len(captured)]
          /\ UNCHANGED <<fb_cap, fb_i, captured_frames>>
  /\ UNCHANGED <<cfgVars, pipeVars, ui, fb_visited>>
  /\ UNCHANGED <<video, OCR_AVAILABLE, fps, total_frames, frame_idx, captured,
                 last_saved, disk, visited, faults>>

\* lines 188-194 and 213-227: the loop is over; release the capture, then
\* return the set or enter _fallback_capture (which opens its own capture)
EndLoop ==
  /\ pc = "loop"
  /\ frame_idx >= total_frames
  /\ cap' = "released"
  /\ content_pass' = captured
  /\ IF Len(captured) < FallbackTrigger
     THEN /\ pc' = "fallback"
          /\ outcome' = "using_fallback"
          /\ fb_cap' = "open"
          /\ fb_i' = 0
          /\ captured_frames' = <<>>
          /\ UNCHANGED processing_stats
     ELSE /\ pc' = "returned"
          /\ outcome' = "returned"
          /\ processing_stats' = KeyFrames(processing_stats, captured)
          /\ UNCHANGED <<fb_cap, fb_i, captured_frames>>
  /\ UNCHANGED <<cfgVars, pipeVars, ui, fb_visited>>
  /\ UNCHANGED <<video, OCR_AVAILABLE, fps, total_frames, frame_idx, captured,
                 last_saved, disk, visited, faults>>

\* lines 230-261: one iteration of the uniform sampling loop
FallbackStep ==
  /\ pc = "fallback"
  /\ fb_i < NumToCapture(total_frames)
  /\ \E pos \in {FallbackPosition(fb_i, NumToCapture(total_frames), total_frames)} :
     /\ fb_visited' = Append(fb_visited, pos)
     /\ LET frame == FrameAt(video, pos)
        IN IF frame.img = "undecodable"
           THEN /\ outcome' = "fb_decode_failed"
                /\ fb_i' = fb_i + 1
                /\ UNCHANGED <<pc, captured_frames, disk, faults>>
           ELSE IF TooBlurry(FrameSharpness(frame))
           THEN /\ outcome' = "fb_rejected_blur"
                /\ fb_i' = fb_i + 1
                /\ UNCHANGED <<pc, captured_frames, disk, faults>>
           ELSE \E ocrThrows \in (IF OCR_AVAILABLE THEN Throws ELSE {FALSE}) :
             LET n == IF ocrThrows THEN faults + 1 ELSE faults
                 text == OcrText(frame, ocrThrows)
                 filename == FallbackFile(Len(captured_frames) + 1)
             IN \E wr \in Writes(n) :
                  IF wr = "raise"
                  THEN /\ pc' = "raised"
                       /\ outcome' = "write_raised"
                       /\ faults' = n + 1
                       /\ UNCHANGED <<captured_frames, disk, fb_i>>
                  ELSE /\ disk' = ImWrite(disk, filename, frame, wr)
                       /\ captured_frames' = Append(captured_frames,
                             Record(filename,
                                    TimeOf(pos, IF fps = 0 THEN 1 ELSE fps),
                                    FrameSharpness(frame), EdgeDensity(frame), text[1]))
                       /\ outcome' = "fb_saved"
                       /\ faults' = IF wr = "ok" THEN n ELSE n + 1
                       /\ fb_i' = fb_i + 1
                       /\ pc' = pc
  /\ UNCHANGED <<cfgVars, pipeVars, ui>>
  /\ UNCHANGED <<video, OCR_AVAILABLE, cap, fps, total_frames, processing_stats,
                 frame_idx, captured, last_saved, fb_cap, content_pass, visited>>

\* a slip in the merge: the membership test is the wrong way round
RECURSIVE MergeFallback_inverted(_, _)
MergeFallback_inverted(set, fallback) ==
  IF fallback = <<>> THEN set
  ELSE LET f == Head(fallback)
       IN MergeFallback_inverted(
            IF f.file \in { set[k].file : k \in DOMAIN set }
            THEN Append(set, f) ELSE set,
            Tail(fallback))

\* lines 196-198: append the fallback records whose file is not yet in the set
RECURSIVE MergeFallback(_, _)
MergeFallback(set, fallback) ==
  IF fallback = <<>> THEN set
  ELSE LET f == Head(fallback)
       IN MergeFallback(
            IF f.file \notin { set[k].file : k \in DOMAIN set }
            THEN Append(set, f) ELSE set,
            Tail(fallback))

\* lines 263-266 and 196-202: _fallback_capture releases its capture and
\* returns; the caller merges its records and returns the set
FallbackReturn ==
  /\ pc = "fallback"
  /\ fb_i >= NumToCapture(total_frames)
  /\ fb_cap' = "released"
  /\ captured' = MergeFallback(captured, captured_frames)
  /\ processing_stats' = KeyFrames(processing_stats, captured')
  /\ pc' = "returned"
  /\ outcome' = "returned"
  /\ UNCHANGED <<cfgVars, pipeVars, ui, fb_visited>>
  /\ UNCHANGED <<video, OCR_AVAILABLE, cap, fps, total_frames, frame_idx,
                 last_saved, fb_i, captured_frames, disk, content_pass, visited,
                 faults>>

(* ---------------- create_pdf and the rest of the pipeline ---------------- *)
\* the characters of a file name within the output directory, as code points
PrefixChars(prefix) ==
  IF prefix = "slide_" THEN <<115, 108, 105, 100, 101, 95>>
  ELSE <<115, 108, 105, 100, 101, 95, 102, 98, 95>>

FileChars(file) ==
  PrefixChars(file.prefix) \o [k \in DOMAIN file.digits |-> 48 + file.digits[k]]
    \o <<46, 112, 110, 103>>

\* a < b for Python strings: code point by code point, a prefix first
RECURSIVE StrLess(_, _)
StrLess(a, b) ==
  IF b = <<>> THEN FALSE
  ELSE IF a = <<>> THEN TRUE
  ELSE IF a[1] /= b[1] THEN a[1] < b[1]
  ELSE StrLess(Tail(a), Tail(b))

\* the place of each string in the stable ascending order: one more than the
\* number of strings that go before it
Places(chars) ==
  [i \in DOMAIN chars |->
     1 + Cardinality({ j \in DOMAIN chars :
                         \/ StrLess(chars[j], chars[i])
                         \/ chars[j] = chars[i] /\ j < i })]

\* sorted(files)
Sorted(files) ==
  CHOOSE sorted \in
    { [k \in DOMAIN files |-> files[CHOOSE i \in DOMAIN files : place[i] = k]] :
        place \in { Places([i \in DOMAIN files |-> FileChars(files[i])]) } } : TRUE

\* lines 319-321: extraction returned None or an empty list
NoFrames ==
  /\ stage = "selection"
  /\ \/ pc = "returned_none"
     \/ pc = "returned" /\ captured = <<>>
  /\ result' = "None"
  /\ stage' = "done"
  /\ UNCHANGED <<cfgVars, video_file, pdf_file, pdf_pages, stages, ui, fb_visited>>
  /\ UNCHANGED <<video, OCR_AVAILABLE, pc, cap, fps, total_frames,
                 processing_stats, frame_idx, captured, last_saved, fb_cap, fb_i,
                 captured_frames, disk, outcome, content_pass, visited, faults>>

\* lines 324 and 276-298: create_pdf on the extracted frames
CreatePdf ==
  /\ stage = "selection"
  /\ pc = "returned"
  /\ captured /= <<>>
  /\ LET files == [k \in DOMAIN captured |-> captured[k].file]
         files_sorted == Sorted(files)
     IN \E written \in BOOLEAN :
          IF written
          THEN /\ pdf_pages' = files_sorted
               /\ pdf_file' = "notes.pdf"
          ELSE /\ pdf_pages' = pdf_pages
               /\ pdf_file' = "None"
  /\ stage' = "cleanup"
  /\ stages' = Append(stages, "export")
  /\ UNCHANGED <<cfgVars, video_file, result, ui, fb_visited>>
  /\ UNCHANGED <<video, OCR_AVAILABLE, pc, cap, fps, total_frames,
                 processing_stats, frame_idx, captured, last_saved, fb_cap, fb_i,
                 captured_frames, disk, outcome, content_pass, visited, faults>>

\* lines 326-338: remove the downloaded video (a failure to is ignored) and
\* return what create_pdf returned
Cleanup ==
  /\ stage = "cleanup"
  /\ \E removed \in BOOLEAN :
       video_file' = IF removed THEN "absent" ELSE video_file
  /\ result' = pdf_file
  /\ stage' = "done"
  /\ stages' = Append(stages, "cleanup")
  /\ UNCHANGED <<cfgVars, pdf_file, pdf_pages, ui, fb_visited>>
  /\ UNCHANGED <<video, OCR_AVAILABLE, pc, cap, fps, total_frames,
                 processing_stats, frame_idx, captured, last_saved, fb_cap, fb_i,
                 captured_frames, disk, outcome, content_pass, visited, faults>>

\* the attributes of a SimpleVideoProcessor object (lines 21-41)
Attributes ==
  {"capture_interval_seconds", "similarity_threshold", "replace_sharpness_factor",
   "replace_text_extra", "min_sharpness", "processing_stats"}

\* streamlit_app.py lines 321-367: process_video_to_pdf has returned or
\* raised.  With an existing document the page reads processor.stats and
\* offers the download; an exception on the way, the AttributeError of a
\* missing attribute included, ends in the except clause (st.error), and so
\* does a result of None.
Report ==
  /\ ui = "processing"
  /\ stage = "done" \/ pc = "raised"
  /\ ui' = IF pc /= "raised" /\ result = "notes.pdf" /\ "stats" \in Attributes
           THEN "download" ELSE "error"
  /\ UNCHANGED <<cfgVars, pipeVars, fb_visited>>
  /\ UNCHANGED <<video, OCR_AVAILABLE, pc, cap, fps, total_frames,
                 processing_stats, frame_idx, captured, last_saved, fb_cap, fb_i,
                 captured_frames, disk, outcome, content_pass, visited, faults>>

Next ==
  \/ DownloadVideo
  \/ NoFrames
  \/ CreatePdf
  \/ Cleanup
  \/ OpenVideo
  \/ MakeDirs
  \/ SampleStep
  \/ EndLoop
  \/ FallbackStep
  \/ FallbackReturn
  \/ Report

Spec == Init /\ [][Next]_vars

TypeOK ==
  /\ pc \in {"not_called", "open", "makedirs", "loop", "fallback", "returned",
              "returned_none", "raised"}
  /\ cap \in {"none", "open", "released"}
  /\ fb_cap \in {"none", "open", "released"}
  /\ faults \in 0..MaxFaults
  /\ ui \in {"processing", "download", "error"}
  /\ Len(fb_visited) <= FallbackMax

(* ======================= properties ======================= *)
SpecRates == InitRates /\ [][Next]_vars
SpecSlideShow == InitSlideShow /\ [][Next]_vars
SpecStill == InitStill /\ [][Next]_vars

\* the same videos, intervals and frame rates in runs where no write, OCR
\* call or makedirs fails
InitRatesQuiet ==
  /\ video \in FineVideos
  /\ capture_interval \in {0, 1, 3}
  /\ meta_fps \in {0, 10}
  /\ Fresh
  /\ faults = MaxFaults

\* the program runs sequentially: a step that can be taken is taken
SpecRatesFair == InitRatesQuiet /\ [][Next]_vars /\ WF_vars(Next)

RECURSIVE DigitsValue(_)
DigitsValue(d) ==
  IF d = <<>> THEN 0 ELSE DigitsValue(SubSeq(d, 1, Len(d) - 1)) * 10 + d[Len(d)]

\* the sequence index embedded in a storage reference
SequenceIndex(file) == DigitsValue(file.digits)
IsContentFile(file) == file.prefix = "slide_"
IsFallbackFile(file) == file.prefix = "slide_fb_"
IsContentRecord(r) == IsContentFile(r.file)

ShortVideo(contents) == [k \in DOMAIN contents |-> [len |-> 125, content |-> contents[k]]]
LongVideo(contents) == [k \in DOMAIN contents |-> [len |-> 1250, content |-> contents[k]]]

\* C1: at every point of the content-aware pass the set holds content-aware
\* records only, and the sequence indexes embedded in the storage references
\* of the content-aware records are 1, 2, ..., n in set order, whatever the
\* sample outcomes were; the same holds of the content-aware records after
\* the fallback merge.
C1_ContiguousIndexes ==
  LET content == SelectSeq(captured, IsContentRecord)
  IN /\ \A k \in DOMAIN content : SequenceIndex(content[k].file) = k
     /\ pc = "loop" => content = captured

\* a replacement of record 1 followed by a distinct accept, then a rejection
C1_Witness ==
  /\ pc = "loop"
  /\ video = ShortVideo(<<Image("a"), Image("a_sharp"), Image("b")>>)
  /\ Len(captured) = 2
  /\ captured[1].sharpness = 115
  /\ SequenceIndex(captured[2].file) = 2

\* C2: no two records of the set have the same storage reference, at any
\* time and in particular in the set that extract_best_frames returns.
C2_UniqueFiles ==
  \A i, j \in DOMAIN captured : i /= j => captured[i].file /= captured[j].file

\* a returned set with replaced and fallback records
C2_Witness ==
  /\ pc = "returned"
  /\ video = ShortVideo(<<Image("a"), Image("a_sharp"), Image("b")>>)
  /\ Len(captured) = 5
  /\ captured[1].sharpness = 115

\* the sample the loop is about to process
Sampling == pc = "loop" /\ frame_idx < total_frames
Candidate == FrameAt(video, frame_idx)
Decodes(frame) == frame.img /= "undecodable"
CandidateBlurry ==
  Sampling /\ Decodes(Candidate) /\ FrameSharpness(Candidate) < min_sharpness
CandidateSharp ==
  Sampling /\ Decodes(Candidate) /\ FrameSharpness(Candidate) >= min_sharpness
\* a sharp sample with similarity >= similarity_threshold to the incumbent
CandidateSimilar ==
  /\ CandidateSharp
  /\ last_saved /= None
  /\ HistCorrelation(Histogram(Candidate), last_saved.hist) >= similarity_threshold
\* the candidate's metadata, OCR having returned normally / returned (0, "")
CandidateInfo == NewInfo(Candidate, frame_idx, OcrText(Candidate, FALSE))
CandidateInfoNoText == NewInfo(Candidate, frame_idx, <<0, "">>)

\* position_i = floor(i * total_frame_count / count)
FloorPosition(i, count, total) == (i * total) \div Max(1, count)

\* the position the fallback loop is about to process
FallbackSampling == pc = "fallback" /\ fb_i < NumToCapture(total_frames)
FallbackCandidate ==
  FrameAt(video, FloorPosition(fb_i, NumToCapture(total_frames), total_frames))

\* C3: a sample whose sharpness is below min_sharpness creates no record,
\* overwrites no image and changes neither the set nor the incumbent, in the
\* content-aware pass and in the fallback pass alike; hence every record of
\* the set and of the fallback list has sharpness >= min_sharpness.
C3_BlurNeverSaved ==
  /\ [][CandidateBlurry =>
          /\ captured' = captured
          /\ last_saved' = last_saved
          /\ disk' = disk]_vars
  /\ [][(/\ FallbackSampling
          /\ Decodes(FallbackCandidate)
          /\ FrameSharpness(FallbackCandidate) < min_sharpness) =>
          /\ captured_frames' = captured_frames
          /\ captured' = captured
          /\ last_saved' = last_saved
          /\ disk' = disk]_vars
  /\ [](/\ \A k \in DOMAIN captured : captured[k].sharpness >= min_sharpness
        /\ \A k \in DOMAIN captured_frames :
              captured_frames[k].sharpness >= min_sharpness)

\* both passes have rejected the blurry second frame, an incumbent being set
C3_Witness ==
  /\ video = ShortVideo(<<Image("a"), Image("a_blur")>>)
  /\ pc = "fallback"
  /\ outcome = "fb_rejected_blur"
  /\ Len(captured) = 1
  /\ Len(captured_frames) = 1
  /\ Len(visited) = 2

\* C4: when a sharp sample is similar to the incumbent and the quality
\* comparator reports no improvement, the step leaves the set (its length
\* and every record), the incumbent and the persisted images unchanged.
C4_RejectionChangesNothing ==
  [][(/\ CandidateSimilar
      /\ \/ ~IsNewBetter(CandidateInfo, last_saved)
         \/ outcome' = "rejected_similar") =>
      /\ captured' = captured
      /\ last_saved' = last_saved
      /\ disk' = disk
      /\ outcome' = "rejected_similar"]_vars

\* a rejection with two records in the set and their images on disk
C4_Witness ==
  /\ pc = "loop"
  /\ outcome = "rejected_similar"
  /\ Len(captured) = 2
  /\ DOMAIN disk = {SlideFile(1), SlideFile(2)}

\* C5: a replacement keeps the length of the set and the storage reference
\* (hence the sequence index) of the incumbent's record, sets the record's
\* timestamp, sharpness, edge density and text amount to the candidate's and
\* leaves every other record unchanged; and a similar sample that the
\* comparator finds better is a replacement unless its write raises.
C5_ReplacementInPlace ==
  /\ [][(CandidateSimilar /\ outcome' = "replaced") =>
          LET n == Len(captured)
          IN /\ n >= 1
             /\ Len(captured') = n
             /\ captured'[n].file = captured[n].file
             /\ captured'[n].file = last_saved.file
             /\ captured'[n].time = TimeOf(frame_idx, fps)
             /\ captured'[n].sharpness = FrameSharpness(Candidate)
             /\ captured'[n].edge_density = EdgeDensity(Candidate)
             /\ captured'[n].text_amount \in {0, TextAmount(Candidate)[1]}
             /\ captured'[n].text_amount = last_saved'.text_amount
             /\ \A k \in 1..(n - 1) : captured'[k] = captured[k]]_vars
  /\ [][(CandidateSimilar /\ IsNewBetter(CandidateInfoNoText, last_saved)) =>
          outcome' \in {"replaced", "replacement_failed"}]_vars

\* the second record has been replaced by a sharper frame
C5_Witness ==
  /\ pc = "loop"
  /\ outcome = "replaced"
  /\ Len(captured) = 2
  /\ captured[2].sharpness = 115
  /\ captured[2].time = TimeOf(250, fps)
  /\ captured[2].file = SlideFile(2)

\* the fallback positions whose frame decodes and is sharp enough
EligibleFallbackPositions ==
  { i \in 0..(NumToCapture(total_frames) - 1) :
      LET f == FrameAt(video, FloorPosition(i, NumToCapture(total_frames),
                                            total_frames))
      IN Decodes(f) /\ FrameSharpness(f) >= min_sharpness }

ContentPassOver == cap = "released"
FallbackInvoked == fb_cap /= "none"

\* C6: when the content-aware pass ended with fewer than 3 records, the
\* returned set has at least min(3, number of eligible fallback positions)
\* records, and no appended fallback record has a storage reference that an
\* earlier record of the set has.
C6_FallbackFillsSet ==
  (pc = "returned" /\ Len(content_pass) < FallbackTrigger) =>
    /\ Len(captured) >= Min(3, Cardinality(EligibleFallbackPositions))
    /\ \A k \in (Len(content_pass) + 1)..Len(captured) :
         captured[k].file \notin { captured[j].file : j \in 1..(k - 1) }

\* one content-aware record and three eligible fallback positions
C6_Witness ==
  /\ pc = "returned"
  /\ Len(content_pass) = 1
  /\ Cardinality(EligibleFallbackPositions) = 3
  /\ Len(captured) = 4
  /\ IsFallbackFile(captured[4].file)

\* C7: the fallback sampler runs exactly when the content-aware pass ended
\* with fewer than 3 records and only after that pass is over (all positions
\* visited, its capture released); the returned set is the content-aware
\* records in their order followed by the fallback records in theirs.
C7_FallbackAfterContentPass ==
  /\ FallbackInvoked =>
       /\ ContentPassOver
       /\ pc \in {"fallback", "returned", "raised"}
       /\ frame_idx >= total_frames
       /\ Len(content_pass) < 3
  /\ (ContentPassOver /\ Len(content_pass) < 3) => FallbackInvoked
  /\ pc = "returned" =>
       /\ Len(captured) >= Len(content_pass)
       /\ SubSeq(captured, 1, Len(content_pass)) = content_pass
       /\ \A k \in DOMAIN content_pass : IsContentRecord(captured[k])
       /\ SubSeq(captured, Len(content_pass) + 1, Len(captured)) =
            (IF FallbackInvoked THEN captured_frames ELSE <<>>)
       /\ \A k \in (Len(content_pass) + 1)..Len(captured) :
            IsFallbackFile(captured[k].file)

\* two content-aware records followed by two fallback records
C7_Witness ==
  /\ pc = "returned"
  /\ Len(content_pass) = 2
  /\ Len(captured) = 4
  /\ IsContentRecord(captured[2])
  /\ IsFallbackFile(captured[3].file)

\* two sample positions: a frame, then a near-identical frame 15% sharper
TwoSimilarSamples == ShortVideo(<<Image("a"), Image("a_sharp")>>)

\* C8 as stated: for two near-identical consecutive sharp samples, the second
\* 15% sharper, the set extract_best_frames returns has exactly 1 record,
\* whose sharpness is the second sample's.
C8_Original ==
  (video = TwoSimilarSamples /\ pc = "returned" /\ faults = 0) =>
    /\ Len(captured) = 1
    /\ captured[1].sharpness = 115

\* C8 amended: for that video the content-aware pass ends with exactly 1
\* record, slide_001, whose sharpness is the second sample's when no write
\* failed; that being fewer than 3 records the fallback sampler runs, and the
\* returned set is that record followed by one fallback record for each
\* fallback position that decodes and is sharp (2 here): 3 records.
C8_ReplacedThenFallback ==
  (video = TwoSimilarSamples /\ ContentPassOver) =>
    /\ Len(visited) = 2
    /\ Len(content_pass) = 1
    /\ content_pass[1].file = SlideFile(1)
    /\ faults = 0 =>
         /\ content_pass[1].sharpness = FrameSharpness(Image("a_sharp"))
         /\ content_pass[1].time = TimeOf(125, fps)
    /\ FallbackInvoked
    /\ pc = "returned" =>
         /\ Len(captured) = 1 + Cardinality(EligibleFallbackPositions)
         /\ Len(captured) = 3
         /\ captured[1] = content_pass[1]
         /\ IsFallbackFile(captured[2].file)
         /\ IsFallbackFile(captured[3].file)

\* the set returned for that video in a run without failures
C8_Witness ==
  /\ video = TwoSimilarSamples
  /\ pc = "returned"
  /\ faults = 0
  /\ Len(captured) = 3
  /\ captured[1].sharpness = 115
  /\ disk[SlideFile(1)] = "a_sharp"

\* 100 s at 25 fps: one still scene for 50 s, then another that the
\* fingerprints tell apart, all frames sharp
TwoSceneVideos ==
  { LongVideo(<<x, y>>) : x, y \in Images } \cap
  { v \in Videos :
      /\ Len(v) = 2
      /\ \A k \in 1..2 : FrameSharpness(v[k].content) >= min_sharpness
      /\ HistCorrelation(Histogram(v[1].content), Histogram(v[2].content))
           < similarity_threshold }

\* C9: for a 100 s, 25 fps video and capture_interval_seconds = 5 the pass
\* visits exactly the 20 positions 0, 125, ..., 2375; with one still scene in
\* the first 50 s and another in the last 50 s, all frames sharp and the
\* scenes told apart, the content-aware pass ends with exactly 2 records,
\* the first from the first scene and the second from the second.
C9_TwoScenesTwoRecords ==
  video \in TwoSceneVideos =>
    /\ Len(visited) <= 20
    /\ \A k \in DOMAIN visited : visited[k] = (k - 1) * 125
    /\ ContentPassOver =>
         /\ fps = 25
         /\ total_frames = 2500
         /\ processing_stats.video_duration = 100 * 1000
         /\ Len(visited) = 20
         /\ Len(content_pass) = 2
         /\ content_pass[1].time < 50 * 1000
         /\ content_pass[1].sharpness = FrameSharpness(video[1].content)
         /\ content_pass[2].time >= 50 * 1000
         /\ content_pass[2].sharpness = FrameSharpness(video[2].content)

\* the content-aware pass over such a video has just ended
C9_Witness ==
  /\ video = LongVideo(<<Image("a"), Image("b")>>)
  /\ pc = "fallback"
  /\ outcome = "using_fallback"
  /\ Len(visited) = 20
  /\ Len(content_pass) = 2

\* every frame of the video that decodes is below min_sharpness
AllBlurry ==
  \A k \in DOMAIN video :
    Decodes(video[k].content) => FrameSharpness(video[k].content) < min_sharpness

\* C10: for a video all of whose decodable frames are blurry, the
\* content-aware pass ends with no record, the fallback sampler is invoked
\* and persists nothing either, nothing is ever written, and once the video
\* is open and the output directory made the call fails nowhere: it returns
\* the empty set.
C10_BlurryVideoEmptySet ==
  AllBlurry =>
    /\ captured = <<>>
    /\ captured_frames = <<>>
    /\ disk = <<>>
    /\ last_saved = None
    /\ ContentPassOver => (content_pass = <<>> /\ FallbackInvoked)
    /\ pc = "raised" => outcome = "makedirs_raised"
    /\ pc = "returned_none" => outcome = "cannot_open"
    /\ pc = "returned" =>
         /\ FallbackInvoked
         /\ fb_i = NumToCapture(total_frames)
         /\ processing_stats.key_frames = 0

\* the empty set returned for a video with a blurry and an undecodable part
C10_Witness ==
  /\ video = ShortVideo(<<Image("a_blur"), Undecodable, Image("a_blur")>>)
  /\ pc = "returned"
  /\ captured = <<>>
  /\ Len(visited) = 3
  /\ fb_i = 3
  /\ fb_cap = "released"

CeilDiv(a, b) == (a + b - 1) \div b

\* the records the fallback merge appended
FallbackAppended == Len(captured) - Len(content_pass)

\* C11 as stated: the returned set has at most
\* ceil(video_duration / capture_interval) + (fallback records appended)
\* records, video_duration = total_frames / fps (capture_interval is in
\* tenths of a second, so the quotient is 10 * total_frames over
\* fps * capture_interval).
C11_Original ==
  (pc = "returned" /\ capture_interval > 0) =>
    Len(captured) <= CeilDiv(10 * total_frames, fps * capture_interval)
                       + FallbackAppended

\* C11 amended: the loop visits exactly ceil(total_frames / step) positions,
\* step = max(1, round(capture_interval * fps)), and the returned set has at
\* most that many records plus the fallback records appended.
C11_BoundedByPositions ==
  LET step == Max(1, Round(capture_interval * fps, 10))
  IN /\ ContentPassOver =>
          /\ Len(visited) = CeilDiv(total_frames, step)
          /\ Len(content_pass) <= Len(visited)
     /\ pc = "returned" =>
          Len(captured) <= CeilDiv(total_frames, step) + FallbackAppended

\* 10 frames at 25 fps sampled every 0.1 s: step round(2.5) = 2, 5 positions,
\* 5 records, while ceil(0.4 / 0.1) = 4
C11_Witness ==
  /\ pc = "returned"
  /\ capture_interval = 1
  /\ fps = 25
  /\ total_frames = 10
  /\ Len(visited) = 5
  /\ Len(captured) = 5
  /\ FallbackAppended = 0

\* extract_best_frames is over: it returned a set, returned None or raised
CallOver == pc \in {"returned", "returned_none", "raised"}

\* C12 as stated: when the call is over, on whatever path, neither the
\* capture opened by extract_best_frames nor the one opened by
\* _fallback_capture is still open.
C12_HandlesReleased ==
  CallOver => (cap /= "open" /\ fb_cap /= "open")

\* C13: when the video cannot be opened extract_best_frames returns None
\* (and process_video_to_pdf reports None); no position is sampled, no image
\* persisted, no record created and the fallback sampler is not invoked.
C13_CannotOpenAborts ==
  (pc \notin {"not_called", "open"} /\ cap = "none") =>
    /\ pc = "returned_none"
    /\ outcome = "cannot_open"
    /\ visited = <<>>
    /\ captured = <<>>
    /\ last_saved = None
    /\ disk = <<>>
    /\ ~FallbackInvoked
    /\ captured_frames = <<>>
    /\ processing_stats.key_frames = 0
    /\ pdf_pages = <<>>
    /\ stage = "done" => result = "None"

\* a video with sharp frames that could not be opened, reported upward
C13_Witness ==
  /\ video = ShortVideo(<<Image("a"), Image("b")>>)
  /\ pc = "returned_none"
  /\ stage = "done"
  /\ result = "None"

\* the write of the step did not put the candidate's image into the
\* incumbent's file
ReplacementNotPersisted ==
  ~(/\ last_saved.file \in DOMAIN disk'
    /\ disk'[last_saved.file] = Candidate.img)

\* C14 as stated: when the write of a replacement fails, the set, the
\* incumbent's record and the incumbent slot stay as they were and the pass
\* goes on with the next position.
C14_Original ==
  [][(/\ CandidateSimilar
      /\ outcome' \in {"replaced", "replacement_failed"}
      /\ ReplacementNotPersisted) =>
      /\ captured' = captured
      /\ last_saved' = last_saved
      /\ pc' = "loop"
      /\ frame_idx' = frame_idx + IntervalFrames(fps)]_vars

\* C15 as stated: once the video is open no failed write of a sample stops
\* the pass or leaves extract_best_frames or _fallback_capture as an
\* exception.
C15_Original ==
  ~(pc = "raised" /\ outcome = "write_raised")

\* C16: a decode failure at a sample position leaves the set, every record,
\* the incumbent and the persisted images as they were, and the pass goes on
\* with the next position.
C16_DecodeFailureSkips ==
  [][(Sampling /\ ~Decodes(Candidate)) =>
      /\ captured' = captured
      /\ last_saved' = last_saved
      /\ disk' = disk
      /\ captured_frames' = captured_frames
      /\ faults' = faults
      /\ pc' = "loop"
      /\ visited' = Append(visited, frame_idx)
      /\ frame_idx' = frame_idx + IntervalFrames(fps)
      /\ outcome' = "decode_failed"]_vars

\* a decode failure with an incumbent set and a position still to come
C16_Witness ==
  /\ video = ShortVideo(<<Image("a"), Undecodable, Image("b")>>)
  /\ pc = "loop"
  /\ outcome = "decode_failed"
  /\ Len(captured) = 1
  /\ frame_idx = 250
  /\ DOMAIN disk = {SlideFile(1)}

\* C17 as stated: whatever set extract_best_frames returned, the pages of the
\* document, which create_pdf takes from the lexicographically sorted file
\* names, are the files of the set in selection (insertion) order.
C17_SortedIsSelectionOrder ==
  pdf_file = "notes.pdf" =>
    pdf_pages = [k \in DOMAIN captured |-> captured[k].file]

\* C18 as stated: what process_video_to_pdf returns when the frames were
\* extracted and create_pdf failed differs from what it returns when the
\* extraction failed or gave no frames (None).
C18_ExportFailureDistinct ==
  (stage = "done" /\ pdf_file = "None") => result /= "None"

\* the download succeeded: the pipeline went on to the selection stage
Downloaded == Len(stages) >= 2

\* C19 as stated: a call of process_video_to_pdf whose download succeeded
\* returns only after the cleanup stage, and the stages entered are, in this
\* order, fetch, selection, export, cleanup.
C19_CleanupAlwaysReached ==
  (stage = "done" /\ Downloaded) =>
    stages = <<"fetch", "selection", "export", "cleanup">>

\* C20: no step of the pass, of the fallback or of the merge shortens the
\* set or changes a record other than the last; the last record changes
\* only by a replacement, which keeps its storage reference.
C20_SetOnlyGrows ==
  [][LET n == Len(captured)
     IN /\ Len(captured') >= n
        /\ \A k \in 1..(n - 1) : captured'[k] = captured[k]
        /\ (n >= 1 /\ captured'[n] /= captured[n]) =>
             /\ pc = "loop"
             /\ outcome' = "replaced"
             /\ Len(captured') = n
             /\ captured'[n].file = captured[n].file]_vars

\* a superseded first record, a replaced second record and fallback records
\* behind them in the returned set
C20_Witness ==
  /\ video = ShortVideo(<<Image("b"), Image("a"), Image("a_sharp")>>)
  /\ pc = "returned"
  /\ Len(captured) = 5
  /\ captured[1].sharpness = FrameSharpness(Image("b"))
  /\ captured[1].time = 0
  /\ captured[2].sharpness = FrameSharpness(Image("a_sharp"))
  /\ captured[2].file = SlideFile(2)
  /\ IsFallbackFile(captured[3].file)




\* C21 as stated: the fallback sampler visits exactly
\* count = min(20, max(1, total_frames div 100)) positions, the i-th being
\* floor(i * total_frames / count); from 100 frames on the positions are
\* strictly increasing and lie in [0, total_frames); and the sampler returns
\* at most count records.
C21_FallbackPositions ==
  LET count == Min(20, Max(1, total_frames \div 100))
  IN /\ Len(fb_visited) <= count
     /\ Len(captured_frames) <= Len(fb_visited)
     /\ \A k \in DOMAIN fb_visited :
          fb_visited[k] = FloorPosition(k - 1, count, total_frames)
     /\ total_frames >= 100 =>
          /\ \A k \in DOMAIN fb_visited :
               fb_visited[k] >= 0 /\ fb_visited[k] < total_frames
          /\ \A k \in 1..(Len(fb_visited) - 1) : fb_visited[k] < fb_visited[k + 1]
     /\ (pc = "returned" /\ FallbackInvoked) => Len(fb_visited) = count

\* the step is what lines 127-186 do with the metadata info: an initial or
\* distinct accept, a replacement or a rejection, decided by info
ProcessedWith(info) ==
  LET accepted == Record(SlideFile(Len(captured) + 1), info.time, info.sharpness,
                         info.edge_density, info.text_amount)
  IN IF last_saved = None \/
        HistCorrelation(info.hist, last_saved.hist) < similarity_threshold
     THEN \/ /\ outcome' = (IF last_saved = None THEN "saved_initial"
                                                  ELSE "saved_distinct")
             /\ captured' = Append(captured, accepted)
             /\ last_saved' = WithFile(info, accepted.file)
             /\ pc' = "loop"
          \/ /\ outcome' = "write_raised"
             /\ pc' = "raised"
     ELSE IF IsNewBetter(info, last_saved)
     THEN /\ \/ /\ outcome' = "replaced"
                /\ last_saved' = WithFile(info, last_saved.file)
                /\ captured'[Len(captured)].text_amount = info.text_amount
             \/ /\ outcome' = "replacement_failed"
                /\ last_saved' = last_saved
          /\ pc' = "loop"
     ELSE /\ outcome' = "rejected_similar"
          /\ captured' = captured
          /\ last_saved' = last_saved
          /\ pc' = "loop"

\* the write of the step failed: it raised, or returned False and left the
\* output directory as it was
WriteFailed ==
  \/ outcome' \in {"write_raised", "replacement_failed"}
  \/ /\ outcome' \in {"saved_initial", "saved_distinct", "replaced", "fb_saved"}
     /\ disk' = disk

\* _text_amount raised in the step: a failure that is not the write's
OcrThrew == faults' = faults + (IF WriteFailed THEN 2 ELSE 1)

\* C22: a sharp sample taken while OCR is unavailable, or on which OCR
\* throws, has text amount 0 and empty text content and is processed as a
\* sample on which OCR returned (0, ""); with OCR available and not throwing
\* it is processed with the text OCR found.  The fallback pass records text
\* amount 0 in those cases and goes on as well.
C22_OcrDegrades ==
  /\ [][CandidateSharp =>
          IF ~OCR_AVAILABLE \/ OcrThrew
          THEN /\ CandidateInfoNoText.text_amount = 0
               /\ CandidateInfoNoText.text_content = ""
               /\ ProcessedWith(CandidateInfoNoText)
          ELSE ProcessedWith(CandidateInfo)]_vars
  /\ [][(/\ FallbackSampling
          /\ Decodes(FallbackCandidate)
          /\ FrameSharpness(FallbackCandidate) >= min_sharpness
          /\ (~OCR_AVAILABLE \/ OcrThrew)) =>
          \/ /\ outcome' = "fb_saved"
             /\ Len(captured_frames') = Len(captured_frames) + 1
             /\ captured_frames'[Len(captured_frames')].text_amount = 0
             /\ pc' = "fallback"
          \/ /\ outcome' = "write_raised"
             /\ captured_frames' = captured_frames
             /\ pc' = "raised"]_vars

\* OCR threw on a frame with text, which was accepted with text amount 0
C22_Witness ==
  /\ video = ShortVideo(<<Image("a_text"), Image("b")>>)
  /\ OCR_AVAILABLE
  /\ pc = "loop"
  /\ outcome = "saved_initial"
  /\ faults = 1
  /\ disk = (SlideFile(1) :> "a_text")
  /\ captured[1].text_amount = 0
  /\ last_saved.text_content = ""

\* C23: at every point of the content-aware pass the timestamps of the
\* records are strictly increasing in set order, replacements included: the
\* last record carries the timestamp of the sample that backs it, which is a
\* position visited after those of all earlier records.
C23_TimestampsIncrease ==
  LET set == IF ContentPassOver THEN content_pass ELSE captured
      n == Len(set)
  IN /\ \A k \in 1..(n - 1) : set[k].time < set[k + 1].time
     /\ \A k \in 1..n :
          \E j \in DOMAIN visited : set[k].time = TimeOf(visited[j], fps)
     /\ (pc = "loop" /\ n >= 1) =>
          /\ set[n].time = last_saved.time
          /\ set[n].time < TimeOf(frame_idx, fps)

\* the first record was replaced at 5 s, the second accepted at 10 s
C23_Witness ==
  /\ video = ShortVideo(<<Image("a"), Image("a_sharp"), Image("b")>>)
  /\ pc = "loop"
  /\ frame_idx = 375
  /\ Len(captured) = 2
  /\ captured[1].time = 5000
  /\ captured[1].sharpness = 115
  /\ captured[2].time = 10000

\* C24: throughout the content-aware pass the incumbent is absent exactly
\* when the set is empty, and otherwise its storage reference, timestamp,
\* sharpness, edge density and text amount are those of the last record of
\* the set; and the incumbent changes only in an initial accept, a distinct
\* accept or an applied replacement.
C24_IncumbentInStep ==
  /\ [](LET set == IF ContentPassOver THEN content_pass ELSE captured
        IN /\ last_saved = None <=> set = <<>>
           /\ set /= <<>> =>
                set[Len(set)] = Record(last_saved.file, last_saved.time,
                                       last_saved.sharpness,
                                       last_saved.edge_density,
                                       last_saved.text_amount))
  /\ [][last_saved' /= last_saved =>
          /\ Sampling
          /\ outcome' \in {"saved_initial", "saved_distinct", "replaced"}
          /\ last_saved'.frame = Candidate.img]_vars

\* after an initial accept, a distinct accept and a replacement
C24_Witness ==
  /\ video = ShortVideo(<<Image("b"), Image("a"), Image("a_sharp")>>)
  /\ pc = "loop"
  /\ outcome = "replaced"
  /\ Len(captured) = 2
  /\ captured[2].sharpness = 115
  /\ last_saved.file = SlideFile(2)
  /\ last_saved.frame = "a_sharp"
  /\ last_saved.time = 10000

\* scenes A, B, A, one sample each
ThreeScenes == ShortVideo(<<Image("a"), Image("b"), Image("a")>>)

\* C25: a sharp sample whose similarity to the incumbent is below the
\* threshold becomes a new record at the end of the set (and, the write
\* succeeding, a new image) whatever its quality and whatever the earlier
\* records are; only a write that raises prevents it.  Scenes A, B, A give
\* three records, the third with the image of the first.
C25_ComparedWithIncumbentOnly ==
  /\ [][(/\ CandidateSharp
          /\ last_saved /= None
          /\ HistCorrelation(Histogram(Candidate), last_saved.hist)
               < similarity_threshold) =>
          LET n == Len(captured)
          IN \/ /\ outcome' = "saved_distinct"
                /\ Len(captured') = n + 1
                /\ SubSeq(captured', 1, n) = captured
                /\ captured'[n + 1].file = SlideFile(n + 1)
                /\ captured'[n + 1].sharpness = FrameSharpness(Candidate)
                /\ last_saved'.frame = Candidate.img
                /\ \/ WriteFailed
                   \/ /\ SlideFile(n + 1) \in DOMAIN disk'
                      /\ disk'[SlideFile(n + 1)] = Candidate.img
             \/ /\ outcome' = "write_raised"
                /\ pc' = "raised"]_vars
  /\ []((video = ThreeScenes /\ ContentPassOver) =>
          /\ Len(content_pass) = 3
          /\ \A k \in 1..3 : content_pass[k].file = SlideFile(k)
          /\ faults = 0 =>
               /\ disk[SlideFile(3)] = disk[SlideFile(1)]
               /\ captured = content_pass)

\* the third sample of A, B, A was accepted although slide_001 shows it
C25_Witness ==
  /\ video = ThreeScenes
  /\ pc = "loop"
  /\ outcome = "saved_distinct"
  /\ Len(captured) = 3
  /\ disk = (SlideFile(1) :> "a" @@ SlideFile(2) :> "b" @@ SlideFile(3) :> "a")

\* C26: whatever the frame count, the frame rate (25 when the metadata has
\* none) and the capture interval (0 included, the step then being 1), the
\* positions visited are the multiples 0, step, 2 * step, ... of the step
\* below total_frames, at most ceil(total_frames / step) of them, the
\* fallback visits at most FallbackMax positions, and a call of
\* extract_best_frames in which nothing raises eventually returns.
C26_Terminates ==
  /\ [](LET step == Max(1, Round(capture_interval * fps, 10))
        IN /\ \A k \in DOMAIN visited :
                /\ visited[k] = (k - 1) * step
                /\ visited[k] >= 0
                /\ visited[k] < total_frames
           /\ Len(visited) <= CeilDiv(total_frames, step)
           /\ Len(fb_visited) <= FallbackMax
           /\ cap /= "none" => fps > 0)
  /\ (pc = "open") ~> (pc \in {"returned", "returned_none"})

\* 10 frames, no frame rate in the metadata, capture interval 0: step 1
C26_Witness ==
  /\ pc = "returned"
  /\ capture_interval = 0
  /\ meta_fps = 0
  /\ fps = DefaultFps
  /\ total_frames = 10
  /\ visited = <<0, 1, 2, 3, 4, 5, 6, 7, 8, 9>>

\* C27 as stated: when process_video_to_pdf has returned the location of an
\* existing document, the page reads the run statistics and ends in the
\* download state, not in the error state; and after a pass that returned a
\* set the key_frames statistic is the length of that set.
C27_ReportReachesDownload ==
  /\ (ui /= "processing" /\ stage = "done" /\ result = "notes.pdf") =>
       ui = "download"
  /\ pc = "returned" => processing_stats.key_frames = Len(captured)
====
